---------------------------- MODULE Spec2Model ----------------------------
(***************************************************************************)
(* State-machine model of three parts of near-sdk-rs:                      *)
(*                                                                         *)
(*  - the storage-backed Vector and the two iterators over it,             *)
(*    store::vec::Iter and store::vec::IterMut                             *)
(*    (near-sdk/src/store/vec/iter.rs).  One invocation of a contract is   *)
(*    modelled: a Vector is built with push/pop/swap_remove/get_mut/flush, *)
(*    and borrowed by an iterator that is driven by next, next_back,       *)
(*    nth(n) and nth_back(n) in any order.  A host panic (env::panic_str)  *)
(*    aborts the invocation: nothing runs after it.                        *)
(*                                                                         *)
(*  - the Ownable component                                                *)
(*    (near-contract-standards/src/access/ownable.rs), called by several   *)
(*    accounts over a sequence of invocations.                             *)
(*                                                                         *)
(*  - the promise-result helpers of a callback                             *)
(*    (near-sdk/src/utils/mod.rs).                                         *)
(***************************************************************************)
EXTENDS Integers, Sequences, FiniteSets, TLC

(***************************************************************************)
(* Bounds of the exploration.                                              *)
(***************************************************************************)
\* largest vector length explored (the code's own limit is u32::MAX)
MaxLen == 3
\* largest argument n given to nth(n) / nth_back(n)
MaxN == 2
\* largest number of pushes in one run (caps the history counters)
MaxPushes == 4

(***************************************************************************)
(* Value domains.                                                          *)
(***************************************************************************)
ERR_INDEX_OUT_OF_BOUNDS == "Index out of bounds"

\* Option<T>: None is the empty sequence, Some(v) the one-element sequence
None == <<>>
Some(v) == <<v>>
Unwrap(o) == o[1]

\* element values a caller pushes
PushValues == {1, 2}
\* the marker a caller writes through the k-th reference an IterMut yielded
\* (k counted from 0, as enumerate() does); markers differ from pushed values
Marker(k) == 100 + k

Slots == 0 .. MaxLen - 1
\* indices a caller may pass: every slot and one index past the last slot
Indices == 0 .. MaxLen

\* A cache entry: not cached yet, or an optional value with a dirty flag
NoEntry == [cached |-> FALSE]
Entry(v, s) == [cached |-> TRUE, value |-> v, state |-> s]

VARIABLES
    len,        \* Vector.len: u32
    cache,      \* the Vector's cache: slot -> NoEntry or Entry
    store,      \* the underlying key-value store at key_for(prefix, slot)
    kind,       \* which iterator borrows the vector: "none", "iter", "itermut"
    start,      \* range.start of the iterator
    end,        \* range.end of the iterator
    yielded,    \* history: the items this iterator returned, in call order
    drive,      \* history: how this iterator was driven so far
    written,    \* history: the yielded references the caller wrote through
    ret,        \* history: the last call made and what it returned
    pushes,     \* history: number of push calls
    removals,   \* history: number of pop/swap_remove calls that removed an element
    aborted,    \* the panic message once the invocation was aborted, else None
    owner,      \* Ownable.owner: Option<AccountId>
    predecessor,     \* env::predecessor_account_id() of the current invocation
    own_ret,         \* history: the last Ownable call and how it ended
    renounced,       \* history: a renounce_ownership call has succeeded
    promise_results, \* the promise results the host holds for this callback
    promise_ret      \* history: the last promise-result call and what it returned

vars == <<len, cache, store, kind, start, end, yielded, drive, written, ret,
          pushes, removals, aborted, owner, predecessor, own_ret, renounced,
          promise_results, promise_ret>>
iterVars == <<kind, start, end, yielded, drive, written>>
\* the Vector and its iterator
vecVars == <<len, cache, store, iterVars, ret, pushes, removals, aborted>>
\* the Ownable component and the account calling it
ownVars == <<owner, predecessor, own_ret, renounced>>
\* the callback's promise results
promiseVars == <<promise_results, promise_ret>>

Running == aborted = None

\* what a call reports: the operation, its argument, the length (of the vector
\* or of the iterator's remaining range) before the call, and the value returned
Ret(op, arg, pre, val) == [op |-> op, arg |-> arg, pre |-> pre, val |-> val]

\* env::panic_str(msg): the invocation ends here
Panic(op, arg, pre, msg) ==
    /\ aborted' = Some(msg)
    /\ ret' = Ret(op, arg, pre, None)

(***************************************************************************)
(* Ownable (near-contract-standards/src/access/ownable.rs).  Each step is   *)
(* one invocation of the contract by some account.  require! panics        *)
(* through env::panic_str: the invocation is aborted, the state it began   *)
(* with stays, and later invocations run as usual.                         *)
(***************************************************************************)
\* the accounts that call the contract (test_utils::accounts(0 .. 3))
Accounts == {"alice", "bob", "charlie", "danny"}

ERR_NOT_OWNER == "Ownable: caller is not the owner"

\* what an Ownable call reports: the method, its argument, the account that
\* called, the owner before the call, and the panic message if it aborted
OwnRet(op, arg, by, was, panic) ==
    [op |-> op, arg |-> arg, by |-> by, was |-> was, panic |-> panic]

\* the state right after Ownable::new() called by account a
OwnableNew(a) ==
    /\ owner = Some(a)
    /\ predecessor = a
    /\ own_ret = OwnRet("new", None, a, None, None)
    /\ renounced = FALSE

\* a check that lets everybody in once there is no owner
only_owner_OpenWhenNone(a) == owner = None \/ Some(a) = owner

\* the condition only_owner requires, for an invocation by account a
only_owner(a) == Some(a) = owner

\* only_owner() called by account a
OnlyOwner(a) ==
    /\ predecessor' = a
    /\ own_ret' = OwnRet("only_owner", None, a, owner,
                         IF only_owner(a) THEN None ELSE Some(ERR_NOT_OWNER))
    /\ UNCHANGED <<owner, renounced>>
    /\ UNCHANGED <<vecVars, promiseVars>>

\* a renounce_ownership that passes the check and forgets to clear the owner
RenounceOwnership_Keep(a) ==
    /\ predecessor' = a
    /\ IF only_owner(a)
       THEN /\ renounced' = TRUE
            /\ own_ret' = OwnRet("renounce_ownership", None, a, owner, None)
       ELSE /\ own_ret' = OwnRet("renounce_ownership", None, a, owner,
                                 Some(ERR_NOT_OWNER))
            /\ UNCHANGED renounced
    /\ UNCHANGED owner
    /\ UNCHANGED <<vecVars, promiseVars>>

\* renounce_ownership() called by account a
RenounceOwnership(a) ==
    /\ predecessor' = a
    /\ IF only_owner(a)
       THEN /\ owner' = None
            /\ renounced' = TRUE
            /\ own_ret' = OwnRet("renounce_ownership", None, a, owner, None)
       ELSE /\ own_ret' = OwnRet("renounce_ownership", None, a, owner,
                                 Some(ERR_NOT_OWNER))
            /\ UNCHANGED <<owner, renounced>>
    /\ UNCHANGED <<vecVars, promiseVars>>

\* a transfer_ownership that makes its caller the owner
TransferOwnership_ToCaller(a, new_owner) ==
    /\ predecessor' = a
    /\ IF only_owner(a)
       THEN /\ owner' = Some(a)
            /\ own_ret' = OwnRet("transfer_ownership", Some(new_owner), a, owner,
                                 None)
       ELSE /\ own_ret' = OwnRet("transfer_ownership", Some(new_owner), a, owner,
                                 Some(ERR_NOT_OWNER))
            /\ UNCHANGED owner
    /\ UNCHANGED renounced
    /\ UNCHANGED <<vecVars, promiseVars>>

\* a transfer_ownership that does not check its caller
TransferOwnership_Unchecked(a, new_owner) ==
    /\ predecessor' = a
    /\ owner' = Some(new_owner)
    /\ own_ret' = OwnRet("transfer_ownership", Some(new_owner), a, owner, None)
    /\ UNCHANGED renounced
    /\ UNCHANGED <<vecVars, promiseVars>>

\* transfer_ownership(new_owner) called by account a
TransferOwnership(a, new_owner) ==
    /\ predecessor' = a
    /\ IF only_owner(a)
       THEN /\ owner' = Some(new_owner)
            /\ own_ret' = OwnRet("transfer_ownership", Some(new_owner), a, owner,
                                 None)
       ELSE /\ own_ret' = OwnRet("transfer_ownership", Some(new_owner), a, owner,
                                 Some(ERR_NOT_OWNER))
            /\ UNCHANGED owner
    /\ UNCHANGED renounced
    /\ UNCHANGED <<vecVars, promiseVars>>

(***************************************************************************)
(* Promise results of a callback (near-sdk/src/utils/mod.rs).  The host    *)
(* holds one PromiseResult per promise the callback was attached to.       *)
(***************************************************************************)
\* largest number of promise results a callback is given
MaxResults == 3

ERR_EXPECTED_RESULT == "Contract expected a result on the callback"

\* the payloads (Vec<u8>) a successful promise returns; one of them is empty
Payloads == {<<>>, <<7>>}

\* enum PromiseResult
NotReady == [tag |-> "NotReady", data |-> <<>>]
Successful(d) == [tag |-> "Successful", data |-> d]
Failed == [tag |-> "Failed", data |-> <<>>]
PromiseResults == {NotReady, Failed} \cup {Successful(d) : d \in Payloads}

\* env::promise_results_count() and env::promise_result(i)
promise_results_count == Len(promise_results)
promise_result(i) == promise_results[i + 1]

\* what a call reports: the function, the panic message if it aborted, the
\* Option<Vec<u8>> or the bool it returned
PromiseRet(op, panic, val, flag) ==
    [op |-> op, panic |-> panic, val |-> val, flag |-> flag]

\* what a function call yields: a panic message, or a value
Aborts(msg) == [panic |-> Some(msg), val |-> None]
Returns(v) == [panic |-> None, val |-> v]

\* a version that takes the first result whenever there is at least one
promise_result_as_success_AtLeastOne ==
    IF ~(promise_results_count >= 1) THEN Aborts(ERR_EXPECTED_RESULT)
    ELSE IF promise_result(0).tag = "Successful"
         THEN Returns(Some(promise_result(0).data))
         ELSE Returns(None)

\* promise_result_as_success(): Option<Vec<u8>>
promise_result_as_success ==
    IF ~(promise_results_count = 1) THEN Aborts(ERR_EXPECTED_RESULT)
    ELSE IF promise_result(0).tag = "Successful"
         THEN Returns(Some(promise_result(0).data))
         ELSE Returns(None)

\* is_promise_success(): promise_result_as_success().is_some()
is_promise_success ==
    IF promise_result_as_success.panic # None
    THEN [panic |-> promise_result_as_success.panic, val |-> FALSE]
    ELSE [panic |-> None, val |-> promise_result_as_success.val # None]

\* the callback calls promise_result_as_success()
PromiseResultAsSuccess ==
    /\ promise_ret' = PromiseRet("promise_result_as_success",
                                 promise_result_as_success.panic,
                                 promise_result_as_success.val, FALSE)
    /\ UNCHANGED <<promise_results, vecVars, ownVars>>

\* the callback calls is_promise_success()
IsPromiseSuccess ==
    /\ promise_ret' = PromiseRet("is_promise_success", is_promise_success.panic,
                                 None, is_promise_success.val)
    /\ UNCHANGED <<promise_results, vecVars, ownVars>>

\* an invocation that is not a callback: the host holds no promise result
NoCallback ==
    /\ promise_results = <<>>
    /\ promise_ret = PromiseRet("none", None, None, FALSE)

\* a callback invocation, with the promise results the host may hold
Callback ==
    /\ promise_results \in UNION {[1 .. n -> PromiseResults] : n \in 0 .. MaxResults}
    /\ promise_ret = PromiseRet("none", None, None, FALSE)

(***************************************************************************)
(* The Vector (spec sections 3, 4.2-4.4).                                  *)
(***************************************************************************)
\* load_or_insert: the entry of slot i, read from the store on first access
Loaded(c, i) ==
    IF c[i].cached THEN c ELSE [c EXCEPT ![i] = Entry(store[i], "Clean")]

\* get(i): None if i >= len, else the value resolved through the cache
VecGetValue(i) ==
    IF i >= len THEN None ELSE Loaded(cache, i)[i].value
VecGetCache(i) ==
    IF i >= len THEN cache ELSE Loaded(cache, i)

\* get_mut(i): as get, and the entry is Dirty as soon as access is granted
VecGetMutCache(i) ==
    IF i >= len THEN cache
    ELSE [Loaded(cache, i) EXCEPT ![i].state = "Dirty"]

\* the logical content of the vector: what get(i) answers for every i < len
Content == [i \in 0 .. len - 1 |-> VecGetValue(i)]

\* &mut self methods of the Vector need it unborrowed: Iter holds &'a Vector,
\* IterMut holds &'a mut Vector, for the iterator's whole lifetime
Borrowed == kind # "none"

\* an empty Vector, not borrowed, before any call
VectorNew ==
    /\ len = 0
    /\ cache = [i \in Slots |-> NoEntry]
    /\ store = [i \in Slots |-> None]
    /\ kind = "none"
    /\ start = 0
    /\ end = 0
    /\ yielded = <<>>
    /\ drive = "fresh"
    /\ written = {}
    /\ ret = Ret("new", 0, 0, None)
    /\ pushes = 0
    /\ removals = 0
    /\ aborted = None

\* a contract with an empty Vector, owned by the account that deployed it
Init ==
    /\ VectorNew
    /\ OwnableNew("alice")
    /\ NoCallback

\* push(value): writes slot len as Dirty and increments len
Push(v) ==
    /\ Running
    /\ ~Borrowed
    /\ len < MaxLen
    /\ pushes < MaxPushes
    /\ cache' = [cache EXCEPT ![len] = Entry(Some(v), "Dirty")]
    /\ len' = len + 1
    /\ pushes' = pushes + 1
    /\ ret' = Ret("push", v, len, None)
    /\ UNCHANGED <<store, iterVars, removals, aborted>>
    /\ UNCHANGED <<ownVars, promiseVars>>

\* get_mut(i) and a write of the marker through the reference it returns:
\* None if i >= len, else the entry is Dirty and holds the marker
GetMut(i) ==
    /\ Running
    /\ ~Borrowed
    /\ ret' = Ret("get_mut", i, len, VecGetValue(i))
    /\ cache' = IF i >= len THEN cache
                ELSE [VecGetMutCache(i) EXCEPT ![i].value = Some(Marker(0))]
    /\ UNCHANGED <<len, store, iterVars, pushes, removals, aborted>>
    /\ UNCHANGED <<ownVars, promiseVars>>

\* the cache pop leaves: slot len-1 removed (Dirty, absent)
PopCache == [Loaded(cache, len - 1) EXCEPT ![len - 1] = Entry(None, "Dirty")]

\* a pop that, on an empty vector, still marks slot 0 as removed
Pop_MarksOnEmpty ==
    /\ Running
    /\ ~Borrowed
    /\ IF len = 0
       THEN /\ ret' = Ret("pop", 0, len, None)
            /\ cache' = [Loaded(cache, 0) EXCEPT ![0] = Entry(None, "Dirty")]
            /\ UNCHANGED <<len, removals>>
       ELSE /\ ret' = Ret("pop", 0, len, VecGetValue(len - 1))
            /\ cache' = PopCache
            /\ len' = len - 1
            /\ removals' = removals + 1
    /\ UNCHANGED <<store, iterVars, pushes, aborted>>
    /\ UNCHANGED <<ownVars, promiseVars>>

\* pop(): None on an empty vector, else removes and returns the last element
Pop ==
    /\ Running
    /\ ~Borrowed
    /\ IF len = 0
       THEN /\ ret' = Ret("pop", 0, len, None)
            /\ UNCHANGED <<len, cache, removals>>
       ELSE /\ ret' = Ret("pop", 0, len, VecGetValue(len - 1))
            /\ cache' = PopCache
            /\ len' = len - 1
            /\ removals' = removals + 1
    /\ UNCHANGED <<store, iterVars, pushes, aborted>>
    /\ UNCHANGED <<ownVars, promiseVars>>

\* a swap_remove that removes the last slot without moving its value into slot i
SwapRemoveCache_NoMove(i) ==
    [Loaded(cache, len - 1) EXCEPT ![len - 1] = Entry(None, "Dirty")]

\* the cache swap_remove(i) leaves for i < len
SwapRemoveCache(i) ==
    IF i = len - 1 THEN PopCache
    ELSE [Loaded(Loaded(cache, i), len - 1) EXCEPT
             ![i] = Entry(VecGetValue(len - 1), "Dirty"),
             ![len - 1] = Entry(None, "Dirty")]

\* swap_remove(i): out of bounds panics; else the last element takes slot i
SwapRemove(i) ==
    /\ Running
    /\ ~Borrowed
    /\ IF i >= len
       THEN /\ Panic("swap_remove", i, len, ERR_INDEX_OUT_OF_BOUNDS)
            /\ UNCHANGED <<len, cache, removals>>
       ELSE /\ ret' = Ret("swap_remove", i, len, VecGetValue(i))
            /\ cache' = SwapRemoveCache(i)
            /\ len' = len - 1
            /\ removals' = removals + 1
            /\ UNCHANGED aborted
    /\ UNCHANGED <<store, iterVars, pushes>>
    /\ UNCHANGED <<ownVars, promiseVars>>

\* a flush that marks the entries Clean without writing them to the store
FlushStore_Stale == store

\* Entry::flush: a Dirty entry is written (Some) or deleted (None) in the store
FlushStore == [i \in Slots |->
    IF cache[i].cached /\ cache[i].state = "Dirty" THEN cache[i].value ELSE store[i]]
\* the store operations a flush performs: one write or delete per Dirty entry
FlushWrites == {i \in Slots : cache[i].cached /\ cache[i].state = "Dirty"}

\* a flush that leaves the dirty flags as they were
FlushCache_KeepDirty == cache

FlushCache == [i \in Slots |->
    IF cache[i].cached THEN [cache[i] EXCEPT !.state = "Clean"] ELSE cache[i]]

\* flush(): reconciles every Dirty entry with the store and marks it Clean
Flush ==
    /\ Running
    /\ ~Borrowed
    /\ store' = FlushStore
    /\ cache' = FlushCache
    /\ ret' = Ret("flush", 0, len, None)
    /\ UNCHANGED <<len, iterVars, pushes, removals, aborted>>
    /\ UNCHANGED <<ownVars, promiseVars>>

\* the invocation ends and the next one begins: Drop flushes the vector, and the
\* contract state is read back into a fresh Vector with the same prefix and
\* length and an empty cache
Reload ==
    /\ Running
    /\ ~Borrowed
    /\ store' = FlushStore
    /\ cache' = [i \in Slots |-> NoEntry]
    /\ ret' = Ret("reload", 0, len, None)
    /\ UNCHANGED <<len, iterVars, pushes, removals, aborted>>
    /\ UNCHANGED <<ownVars, promiseVars>>

\* env::storage_remove on the key of slot i, made by other code of the contract
\* behind the Vector's back (the store is global to the contract)
StorageRemove(i) ==
    /\ Running
    /\ store[i] # None
    /\ store' = [store EXCEPT ![i] = None]
    /\ UNCHANGED <<len, cache, iterVars, ret, pushes, removals, aborted>>
    /\ UNCHANGED <<ownVars, promiseVars>>

(***************************************************************************)
(* core::ops::Range<u32> as the iterators use it (iter.rs lines 29, 53,    *)
(* 70): a range is the record [start, end].                                *)
(***************************************************************************)
Range(s, e) == [start |-> s, end |-> e]

\* Range::len(): the number of indices left
RangeLen(r) == IF r.start < r.end THEN r.end - r.start ELSE 0

\* an nth that leaves the range as it was when it has no index to give
RangeNth_KeepOnMiss(r, n) ==
    IF r.start + n < r.end
    THEN [idx |-> Some(r.start + n), range |-> Range(r.start + n + 1, r.end)]
    ELSE [idx |-> None, range |-> r]

\* an nth that advances past the end of the range when it has no index to give
RangeNth_Overshoot(r, n) ==
    IF r.start + n < r.end
    THEN [idx |-> Some(r.start + n), range |-> Range(r.start + n + 1, r.end)]
    ELSE [idx |-> None, range |-> Range(r.start + n + 1, r.end)]

\* Range::nth(n): the index start+n if it is below end, and the range after it;
\* otherwise nothing, and the range is emptied from the front.  The cursors are
\* u32 and start+n is a checked addition whose overflow also takes the second
\* branch; the indices explored stay below MaxLen + MaxN, far from u32::MAX.
RangeNth(r, n) ==
    IF r.start + n < r.end
    THEN [idx |-> Some(r.start + n), range |-> Range(r.start + n + 1, r.end)]
    ELSE [idx |-> None, range |-> Range(r.end, r.end)]

\* an nth_back that compares end-n with 0 instead of start
RangeNthBack_IgnoreStart(r, n) ==
    IF r.end - n > 0
    THEN [idx |-> Some(r.end - n - 1), range |-> Range(r.start, r.end - n - 1)]
    ELSE [idx |-> None, range |-> Range(r.start, r.start)]

\* Range::nth_back(n): the index end-n-1 if it is not below start, and the
\* range before it; otherwise nothing, and the range is emptied from the back
RangeNthBack(r, n) ==
    IF r.end - n >= 0 /\ r.end - n > r.start
    THEN [idx |-> Some(r.end - n - 1), range |-> Range(r.start, r.end - n - 1)]
    ELSE [idx |-> None, range |-> Range(r.start, r.start)]

(***************************************************************************)
(* Iter and IterMut (near-sdk/src/store/vec/iter.rs).                      *)
(***************************************************************************)
range == Range(start, end)

\* a remaining that reports the end cursor instead of the width
remaining_End == end

\* Iter::remaining / IterMut::remaining
remaining == RangeLen(range)
\* size_hint(): (remaining, Some(remaining))
size_hint == <<remaining, Some(remaining)>>
\* count(self)
count == remaining
\* ExactSizeIterator::len(): the lower bound of size_hint
ExactLen == size_hint[1]

\* one item an iterator returned: the slot, the end it was taken from and the
\* value seen through the reference when it was handed out
Item(idx, side, v) == [idx |-> idx, side |-> side, val |-> v]

\* what one call does to a range r: the range it leaves, the index it took (if
\* any) and what the vector answered for it.
\* let idx = self.range.nth(n)?; Some(self.vec.get(idx).unwrap_or_else(panic))
Out(x) ==
    [range |-> x.range,
     idx   |-> x.idx,
     val   |-> IF x.idx = None THEN None ELSE VecGetValue(Unwrap(x.idx))]

\* Iter::nth / IterMut::nth on range r
NthOut(r, n) == Out(RangeNth(r, n))
\* Iter::nth_back / IterMut::nth_back on range r
NthBackOut(r, n) == Out(RangeNthBack(r, n))
\* Iter::next / IterMut::next: nth(0)
NextOut(r) == NthOut(r, 0)
\* Iter::next_back / IterMut::next_back: nth_back(0)
NextBackOut(r) == NthBackOut(r, 0)

\* a resolution that walks to the index as repeated next() calls would: every
\* index from the front of the range up to at is resolved through the vector
ResolvedCache_Walk(at) ==
    [i \in Slots |->
        IF i < len /\ start <= i /\ i <= at
        THEN IF kind = "itermut" THEN [Loaded(cache, i)[i] EXCEPT !.state = "Dirty"]
                                 ELSE Loaded(cache, i)[i]
        ELSE cache[i]]

\* IterMut::get_mut(at) / Vector::get(at): the cache after the index is resolved
ResolvedCache(at) ==
    IF kind = "itermut" THEN VecGetMutCache(at) ELSE VecGetCache(at)

\* how the iterator was driven once op was called
Driven(op) ==
    IF op \in {"next", "next_back"} /\ drive \in {"fresh", op} THEN op ELSE "mixed"

\* a call that answers None for a missing element instead of panicking
Resolve_NoPanic(op, n, side, out) ==
    /\ start' = out.range.start
    /\ end' = out.range.end
    /\ drive' = Driven(op)
    /\ IF out.val = None
       THEN /\ ret' = Ret(op, n, remaining, None)
            /\ cache' = IF out.idx = None THEN cache
                                          ELSE ResolvedCache(Unwrap(out.idx))
            /\ UNCHANGED <<yielded, aborted>>
       ELSE /\ cache' = ResolvedCache(Unwrap(out.idx))
            /\ ret' = Ret(op, n, remaining, out.val)
            /\ yielded' = Append(yielded,
                                 Item(Unwrap(out.idx), side, Unwrap(out.val)))
            /\ UNCHANGED aborted
    /\ UNCHANGED <<len, store, kind, written, pushes, removals>>
    /\ UNCHANGED <<ownVars, promiseVars>>

\* the state change of a call whose outcome is out: the range moves; an index
\* that was taken is resolved through the vector, and a missing element panics
Resolve(op, n, side, out) ==
    /\ start' = out.range.start
    /\ end' = out.range.end
    /\ drive' = Driven(op)
    /\ IF out.idx = None
       THEN /\ ret' = Ret(op, n, remaining, None)
            /\ UNCHANGED <<cache, yielded, aborted>>
       ELSE /\ cache' = ResolvedCache(Unwrap(out.idx))
            /\ IF out.val = None
               THEN /\ Panic(op, n, remaining, ERR_INDEX_OUT_OF_BOUNDS)
                    /\ UNCHANGED yielded
               ELSE /\ ret' = Ret(op, n, remaining, out.val)
                    /\ yielded' = Append(yielded,
                                         Item(Unwrap(out.idx), side, Unwrap(out.val)))
                    /\ UNCHANGED aborted
    /\ UNCHANGED <<len, store, kind, written, pushes, removals>>
    /\ UNCHANGED <<ownVars, promiseVars>>

\* an Iter::new whose range stops one short of the length
IterNew_Short ==
    /\ Running
    /\ ~Borrowed
    /\ kind' = "iter"
    /\ start' = 0
    /\ end' = IF len = 0 THEN 0 ELSE len - 1
    /\ yielded' = <<>>
    /\ drive' = "fresh"
    /\ written' = {}
    /\ ret' = Ret("iter", 0, len, None)
    /\ UNCHANGED <<len, cache, store, pushes, removals, aborted>>
    /\ UNCHANGED <<ownVars, promiseVars>>

\* Iter::new
IterNew ==
    /\ Running
    /\ ~Borrowed
    /\ kind' = "iter"
    /\ start' = 0
    /\ end' = len
    /\ yielded' = <<>>
    /\ drive' = "fresh"
    /\ written' = {}
    /\ ret' = Ret("iter", 0, len, None)
    /\ UNCHANGED <<len, cache, store, pushes, removals, aborted>>
    /\ UNCHANGED <<ownVars, promiseVars>>

\* an IterMut::new whose range runs one past the length
IterMutNew_Long ==
    /\ Running
    /\ ~Borrowed
    /\ kind' = "itermut"
    /\ start' = 0
    /\ end' = len + 1
    /\ yielded' = <<>>
    /\ drive' = "fresh"
    /\ written' = {}
    /\ ret' = Ret("iter_mut", 0, len, None)
    /\ UNCHANGED <<len, cache, store, pushes, removals, aborted>>
    /\ UNCHANGED <<ownVars, promiseVars>>

\* IterMut::new
IterMutNew ==
    /\ Running
    /\ ~Borrowed
    /\ kind' = "itermut"
    /\ start' = 0
    /\ end' = len
    /\ yielded' = <<>>
    /\ drive' = "fresh"
    /\ written' = {}
    /\ ret' = Ret("iter_mut", 0, len, None)
    /\ UNCHANGED <<len, cache, store, pushes, removals, aborted>>
    /\ UNCHANGED <<ownVars, promiseVars>>

\* an nth that works on a copy of the range, so the iterator does not advance
Nth_Peek(op, n) ==
    Resolve(op, n, "front", [NthOut(range, n) EXCEPT !.range = range])

\* nth(n) of either iterator, called as op
Nth(op, n) == Resolve(op, n, "front", NthOut(range, n))
\* nth_back(n) of either iterator, called as op
NthBack(op, n) == Resolve(op, n, "back", NthBackOut(range, n))

\* Iter::nth
IterNth(n) == Running /\ kind = "iter" /\ Nth("nth", n)
\* Iter::next: nth(0)
IterNext == Running /\ kind = "iter" /\ Nth("next", 0)
\* Iter::nth_back
IterNthBack(n) == Running /\ kind = "iter" /\ NthBack("nth_back", n)

\* a next_back that forwards to nth(0) instead of nth_back(0)
IterNextBack_Front == Running /\ kind = "iter" /\ Nth("next_back", 0)

\* Iter::next_back: nth_back(0)
IterNextBack == Running /\ kind = "iter" /\ NthBack("next_back", 0)

\* IterMut::nth
IterMutNth(n) == Running /\ kind = "itermut" /\ Nth("nth", n)

\* a next that forwards to nth(1) instead of nth(0)
IterMutNext_Skip == Running /\ kind = "itermut" /\ Nth("next", 1)

\* IterMut::next: nth(0)
IterMutNext == Running /\ kind = "itermut" /\ Nth("next", 0)
\* IterMut::nth_back
IterMutNthBack(n) == Running /\ kind = "itermut" /\ NthBack("nth_back", n)
\* IterMut::next_back: nth_back(0)
IterMutNextBack == Running /\ kind = "itermut" /\ NthBack("next_back", 0)

\* the caller writes its marker through the k-th reference IterMut handed out;
\* the reference points at the slot's cache entry for the whole borrow 'a.
\* References are written through in the order they were handed out, each at
\* any time after it was obtained.
WriteRef(k) ==
    /\ Running
    /\ kind = "itermut"
    /\ k \in 1 .. Len(yielded)
    /\ k = Cardinality(written) + 1
    /\ cache' = [cache EXCEPT ![yielded[k].idx].value = Some(Marker(k - 1))]
    /\ written' = written \cup {k}
    /\ ret' = Ret("write", k, remaining, None)
    /\ UNCHANGED <<len, store, kind, start, end, yielded, drive, pushes, removals,
                   aborted>>
    /\ UNCHANGED <<ownVars, promiseVars>>

\* count(self) consumes the iterator: the borrow of the vector ends
Count ==
    /\ Running
    /\ Borrowed
    /\ ret' = Ret("count", 0, remaining, Some(count))
    /\ kind' = "none"
    /\ start' = 0
    /\ end' = 0
    /\ yielded' = <<>>
    /\ drive' = "fresh"
    /\ written' = {}
    /\ UNCHANGED <<len, cache, store, pushes, removals, aborted>>
    /\ UNCHANGED <<ownVars, promiseVars>>

\* the calls that advance an iterator
IterCalls ==
    \/ IterNext
    \/ IterNextBack
    \/ \E n \in 0 .. MaxN : IterNth(n)
    \/ \E n \in 0 .. MaxN : IterNthBack(n)
    \/ IterMutNext
    \/ IterMutNextBack
    \/ \E n \in 0 .. MaxN : IterMutNth(n)
    \/ \E n \in 0 .. MaxN : IterMutNthBack(n)

\* a vector is filled and persisted, then iterated in every possible way
Next ==
    \/ \E v \in PushValues : Push(v)
    \/ Reload
    \/ IterNew
    \/ IterMutNew
    \/ IterCalls
    \/ \E k \in 1 .. MaxLen : WriteRef(k)

Spec == Init /\ [][Next]_vars

\* every mutation of the vector, with front-to-back iteration
NextVec ==
    \/ \E v \in PushValues : Push(v)
    \/ Pop
    \/ \E i \in Indices : SwapRemove(i)
    \/ Flush
    \/ Reload
    \/ IterNew
    \/ IterMutNew
    \/ IterNext
    \/ IterMutNext
    \/ Count

SpecVec == Init /\ [][NextVec]_vars

\* every mutation of the vector, with its writes to the store and the
\* reconstruction from the store
NextStore ==
    \/ \E v \in PushValues : Push(v)
    \/ Pop
    \/ \E i \in Indices : SwapRemove(i)
    \/ \E i \in Indices : GetMut(i)
    \/ Flush
    \/ Reload

SpecStore == Init /\ [][NextStore]_vars

\* a persisted vector whose store keys are removed behind its back, iterated
NextCorrupt ==
    \/ \E v \in PushValues : Push(v)
    \/ Reload
    \/ \E i \in Slots : StorageRemove(i)
    \/ IterNew
    \/ IterMutNew
    \/ IterCalls

SpecCorrupt == Init /\ [][NextCorrupt]_vars

\* the Ownable component called by any account, in any order
InitOwnable ==
    /\ VectorNew
    /\ \E a \in Accounts : OwnableNew(a)
    /\ NoCallback

NextOwnable ==
    \/ \E a \in Accounts : OnlyOwner(a)
    \/ \E a \in Accounts : RenounceOwnership(a)
    \/ \E a, new_owner \in Accounts : TransferOwnership(a, new_owner)

SpecOwnable == InitOwnable /\ [][NextOwnable]_vars

\* a callback that inspects its promise results, for every set of results
InitPromise ==
    /\ VectorNew
    /\ OwnableNew("alice")
    /\ Callback

NextPromise ==
    \/ PromiseResultAsSuccess
    \/ IsPromiseSuccess

SpecPromise == InitPromise /\ [][NextPromise]_vars

(***************************************************************************)
(* Properties.                                                             *)
(***************************************************************************)
\* an iterator exists
Live == kind # "none"

\* the names of the calls that advance an iterator
CallNames == {"next", "next_back", "nth", "nth_back"}

\* the slots the iterator has resolved so far
YieldedSlots == {yielded[k].idx : k \in 1 .. Len(yielded)}

\* C1: one iterator instance never resolves an index through the vector twice,
\* whatever mix of next, next_back, nth and nth_back drives it; so an IterMut
\* never hands out two mutable references to the same slot.
C1_NoIndexResolvedTwice ==
    \A j, k \in 1 .. Len(yielded) : j # k => yielded[j].idx # yielded[k].idx

\* an IterMut that handed out a reference to every slot, from both ends
C1_Witness ==
    /\ kind = "itermut"
    /\ Len(yielded) = MaxLen
    /\ \E j, k \in 1 .. Len(yielded) :
          yielded[j].side = "front" /\ yielded[k].side = "back"

\* the items next alone (or next_back alone) must have yielded after m calls
\* that returned an item: slot k-1 (or len-k) with the element stored there
ForwardItems(m) == [k \in 1 .. m |-> Item(k - 1, "front", Unwrap(VecGetValue(k - 1)))]
BackwardItems(m) ==
    [k \in 1 .. m |-> Item(len - k, "back", Unwrap(VecGetValue(len - k)))]

\* C2: driven by next alone a fresh iter() yields the elements at indices
\* 0, 1, ..., N-1 in that order and then nothing, exactly N items; driven by
\* next_back alone it yields the elements at N-1, ..., 0 and then nothing.
C2_IterationOrder ==
    /\ (kind = "iter" /\ drive = "next") =>
          /\ Len(yielded) <= len
          /\ yielded = ForwardItems(Len(yielded))
          /\ (ret.val = None <=> (Len(yielded) = len /\ ret.pre = 0))
    /\ (kind = "iter" /\ drive = "next_back") =>
          /\ Len(yielded) <= len
          /\ yielded = BackwardItems(Len(yielded))
          /\ (ret.val = None <=> (Len(yielded) = len /\ ret.pre = 0))

\* a vector of MaxLen elements iterated to the end by next alone
C2_Witness ==
    /\ kind = "iter"
    /\ drive = "next"
    /\ len = MaxLen
    /\ Len(yielded) = MaxLen
    /\ ret.val = None

\* C3: an iter_mut() driven by next alone to exhaustion, with the marker of
\* position k written through the k-th reference, leaves slot i holding
\* Marker(i) for every i below len.
C3_EverySlotOwnMarker ==
    (/\ kind = "itermut"
     /\ drive = "next"
     /\ start = end
     /\ written = 1 .. Len(yielded)) =>
        /\ Len(yielded) = len
        /\ \A i \in 0 .. len - 1 : VecGetValue(i) = Some(Marker(i))

\* an iter_mut() over MaxLen elements run to its end by next alone, with every
\* marker written
C3_Witness ==
    /\ kind = "itermut"
    /\ drive = "next"
    /\ len = MaxLen
    /\ start = end
    /\ written = 1 .. MaxLen
    /\ VecGetValue(MaxLen - 1) = Some(Marker(MaxLen - 1))

\* how many of the next k calls of next (next_back; the two in turn) return an
\* item, counted by running the calls on range r
RECURSIVE FutureNext(_, _)
FutureNext(r, k) ==
    IF k = 0 \/ NextOut(r).val = None THEN 0
    ELSE 1 + FutureNext(NextOut(r).range, k - 1)
RECURSIVE FutureNextBack(_, _)
FutureNextBack(r, k) ==
    IF k = 0 \/ NextBackOut(r).val = None THEN 0
    ELSE 1 + FutureNextBack(NextBackOut(r).range, k - 1)
RECURSIVE FutureInTurn(_, _, _)
FutureInTurn(r, k, front) ==
    LET o == IF front THEN NextOut(r) ELSE NextBackOut(r)
    IN IF k = 0 \/ o.val = None THEN 0
       ELSE 1 + FutureInTurn(o.range, k - 1, ~front)

\* C4: whenever an iterator exists, len(), both bounds of size_hint() and
\* count() equal end - start, and so does the number of calls of next, of
\* next_back, or of the two in turn, that still return an item.
C4_ExactSize ==
    Live =>
        /\ ExactLen = end - start
        /\ size_hint = <<end - start, Some(end - start)>>
        /\ count = end - start
        /\ FutureNext(range, MaxLen + 2) = end - start
        /\ FutureNextBack(range, MaxLen + 2) = end - start
        /\ FutureInTurn(range, MaxLen + 2, TRUE) = end - start

\* an iterator consumed from both ends with more than one item left
C4_Witness ==
    /\ Live
    /\ start > 0
    /\ end < len
    /\ end - start >= 1
    /\ drive = "mixed"

\* the outcome of calling next (next_back) k >= 1 times on range r, keeping the
\* last result; a call that panics ends the invocation
RECURSIVE RepeatNext(_, _)
RepeatNext(r, k) ==
    LET o == NextOut(r)
    IN IF k <= 1 \/ (o.idx # None /\ o.val = None) THEN o
       ELSE RepeatNext(o.range, k - 1)
RECURSIVE RepeatNextBack(_, _)
RepeatNextBack(r, k) ==
    LET o == NextBackOut(r)
    IN IF k <= 1 \/ (o.idx # None /\ o.val = None) THEN o
       ELSE RepeatNextBack(o.range, k - 1)

\* C5: in every iterator state and for every n, nth(n) returns the same item
\* and leaves the same range as n+1 calls of next, and nth_back(n) as n+1
\* calls of next_back; for n >= remaining both return nothing and leave the
\* range empty.
C5_NthIsRepeatedNext ==
    Live =>
        \A n \in 0 .. MaxLen + 1 :
            /\ NthOut(range, n) = RepeatNext(range, n + 1)
            /\ NthBackOut(range, n) = RepeatNextBack(range, n + 1)
            /\ n >= remaining =>
                  /\ NthOut(range, n).val = None
                  /\ NthBackOut(range, n).val = None
                  /\ RangeLen(NthOut(range, n).range) = 0
                  /\ RangeLen(NthBackOut(range, n).range) = 0

\* nth(n) with n >= 1 returned an item and left items behind it
C5_Witness ==
    /\ Live
    /\ ret.op = "nth"
    /\ ret.arg >= 1
    /\ ret.val # None
    /\ remaining >= 1

\* C6: a call of next, next_back, nth or nth_back on an iterator whose range is
\* empty returns nothing, does not panic, yields nothing and leaves the range
\* empty; so once the range is empty it stays empty under every later call.
C6_Fused ==
    [][(Live /\ remaining = 0 /\ ret'.op \in CallNames) =>
          /\ ret'.val = None
          /\ aborted' = None
          /\ yielded' = yielded
          /\ start' = end']_vars

\* an IterMut that yielded items, ran empty, and was called again
C6_Witness ==
    /\ kind = "itermut"
    /\ Len(yielded) >= 2
    /\ ret.op \in CallNames
    /\ ret.pre = 0
    /\ ret.val = None

\* C7: an iterator's range is [0, len) with len as it is when the iterator is
\* constructed; while an iterator exists the length of its vector does not
\* change (no push, pop or swap_remove happens), a step that changes the length
\* leaves the range alone, and the range moves only by the iterator's own calls.
C7_Snapshot ==
    [][/\ (~Live /\ Live') => (start' = 0 /\ end' = len /\ len' = len)
       /\ Live => len' = len
       /\ len' # len => (~Live /\ start' = start /\ end' = end)
       /\ (Live /\ Live' /\ <<start', end'>> # <<start, end>>) =>
             ret'.op \in CallNames]_vars

\* an IterMut made over a vector that was pushed to and popped from before
C7_Witness ==
    /\ kind = "itermut"
    /\ ret.op = "iter_mut"
    /\ removals >= 1
    /\ len = 2
    /\ start = 0
    /\ end = 2

\* the index the last call took from the range, when it took one
TakenIndex == IF ret.op \in {"next", "nth"} THEN start - 1 ELSE end

\* C8: when the index a call of next, next_back, nth or nth_back takes from
\* the range resolves to nothing in the vector (neither cached nor stored), the
\* call panics with the index-out-of-bounds message and yields nothing; when it
\* resolves to an element the call returns that element.
C8_MissingElementPanics ==
    (Live /\ ret.op \in CallNames /\ ret.pre > ret.arg) =>
        IF VecGetValue(TakenIndex) = None
        THEN /\ aborted = Some(ERR_INDEX_OUT_OF_BOUNDS)
             /\ ret.val = None
             /\ TakenIndex \notin YieldedSlots
        ELSE /\ aborted = None
             /\ ret.val # None
             /\ yielded # <<>>
             /\ yielded[Len(yielded)].idx = TakenIndex

\* an IterMut whose nth(n), n >= 1, hit a slot missing from cache and store
C8_Witness ==
    /\ kind = "itermut"
    /\ ret.op = "nth"
    /\ ret.arg >= 1
    /\ ret.pre > ret.arg
    /\ aborted = Some(ERR_INDEX_OUT_OF_BOUNDS)
    /\ store[TakenIndex] = None
    /\ cache[TakenIndex].value = None

\* C9: after every sequence of push, pop and swap_remove, len is the number of
\* pushes minus the number of removals that removed an element, and it is the
\* number of items a full front-to-back iteration of iter() yields (and what
\* count() of a fresh iter() answers).
C9_LengthInvariant ==
    /\ len = pushes - removals
    /\ FutureNext(Range(0, len), MaxLen + 2) = len
    /\ (kind = "iter" /\ ret.op = "iter") => (count = len /\ range = Range(0, len))
    /\ (kind = "iter" /\ drive = "next" /\ ret.val = None) => Len(yielded) = len

\* pushes and removals happened, and an iter() ran to its end by next alone
C9_Witness ==
    /\ pushes >= 3
    /\ removals >= 1
    /\ len >= 2
    /\ kind = "iter"
    /\ drive = "next"
    /\ ret.val = None

\* C10: swap_remove(i) with i < len returns the element at i, puts the former
\* last element at i (when i is not the last index), leaves the other indices
\* below len-1 as they were and decrements len; with i >= len it panics with
\* the index-out-of-bounds message and changes nothing.
C10_SwapRemove ==
    [][\A i \in Indices :
          SwapRemove(i) =>
              IF i < len
              THEN /\ aborted' = None
                   /\ ret'.val = Content[i]
                   /\ ret'.val # None
                   /\ len' = len - 1
                   /\ \A j \in 0 .. len - 2 :
                         Content'[j] = IF j = i THEN Content[len - 1] ELSE Content[j]
              ELSE /\ aborted' = Some(ERR_INDEX_OUT_OF_BOUNDS)
                   /\ len' = len
                   /\ Content' = Content]_vars

\* swap_remove(0) on a vector of MaxLen elements whose first and last differ
C10_Witness ==
    /\ ret.op = "swap_remove"
    /\ ret.arg = 0
    /\ ret.pre = MaxLen
    /\ aborted = None
    /\ ret.val # VecGetValue(0)

\* C11: a flush() that directly follows a flush(), with no mutation in between,
\* performs no store write or delete: the first flush left every cache entry
\* Clean, so the second has no store operation to perform and leaves the store
\* and the cache as they are.
C11_FlushIdempotent ==
    ret.op = "flush" =>
        /\ \A i \in Slots : cache[i].cached => cache[i].state = "Clean"
        /\ FlushWrites = {}
        /\ FlushStore = store
        /\ FlushCache = cache

\* a flush was the last call, over a cached and persisted element, after an
\* element was removed: the next flush is the second in a row
C11_Witness ==
    /\ ret.op = "flush"
    /\ removals >= 1
    /\ \E i \in Slots : i < len /\ cache[i].cached /\ store[i] # None
    /\ ENABLED Flush

FreshContent == [i \in 0 .. len - 1 |-> store[i]]

\* C13: after any sequence of push/pop/swap_remove/get_mut writes followed by
\* flush, a fresh Vector bound to the same prefix and store, with an empty
\* cache, has the same length and returns the same element at every index in
\* [0, len) as the original had before the reconstruction.
C13_Persistence ==
    /\ [](ret.op \in {"flush", "reload"} =>
             /\ FreshContent = Content
             /\ \A i \in 0 .. len - 1 : FreshContent[i] # None)
    /\ [][(Flush \/ Reload) =>
             /\ len' = len
             /\ Content' = Content
             /\ FreshContent' = Content]_vars

\* a vector was rebuilt from the store after a removal and a get_mut write, and
\* the written marker and another element are read back from the store alone
C13_Witness ==
    /\ ret.op = "reload"
    /\ removals >= 1
    /\ len >= 2
    /\ \A i \in Slots : ~cache[i].cached
    /\ \E i, j \in 0 .. len - 1 :
          /\ Content[i] = Some(Marker(0))
          /\ Content[j] \in {Some(v) : v \in PushValues}

\* the calls of the Ownable component that only its owner may make
OwnerCalls == {"renounce_ownership", "transfer_ownership"}

\* C14: only_owner returns normally if and only if the calling predecessor
\* account equals the current owner; for any other caller, and for every
\* caller when the owner is None, it aborts with "Ownable: caller is not the
\* owner".  Right after new() the owner is the account that called new().
C14_OnlyOwner ==
    /\ own_ret.op = "new" => owner = Some(own_ret.by) /\ own_ret.by = predecessor
    /\ own_ret.op = "only_owner" =>
          /\ (own_ret.panic = None) <=> (Some(own_ret.by) = own_ret.was)
          /\ own_ret.panic # None => own_ret.panic = Some(ERR_NOT_OWNER)
          /\ own_ret.was = None => own_ret.panic = Some(ERR_NOT_OWNER)
          /\ owner = own_ret.was

\* only_owner was called while there was no owner, and aborted
C14_Witness ==
    /\ own_ret.op = "only_owner"
    /\ own_ret.was = None
    /\ own_ret.panic = Some(ERR_NOT_OWNER)
    /\ renounced

\* the last call was op, made by the account that was the owner
ByOwner(op) == own_ret.op = op /\ Some(own_ret.by) = own_ret.was

\* C15: transfer_ownership(new_owner) called by the current owner sets the owner
\* to new_owner, and renounce_ownership() called by the current owner sets the
\* owner to None; after a transfer to a different account the previous owner
\* no longer passes only_owner and the new owner does.
C15_TransferAndRenounce ==
    /\ [](ByOwner("transfer_ownership") =>
             own_ret.panic = None /\ owner = own_ret.arg)
    /\ [](ByOwner("renounce_ownership") =>
             own_ret.panic = None /\ owner = None)
    /\ [][\A a \in Accounts :
             (/\ ByOwner("transfer_ownership")
              /\ own_ret.arg # Some(own_ret.by)
              /\ OnlyOwner(a)) =>
                 /\ a = own_ret.by => own_ret'.panic = Some(ERR_NOT_OWNER)
                 /\ Some(a) = own_ret.arg => own_ret'.panic = None]_vars

\* the owner has transferred the ownership to another account
C15_Witness ==
    /\ ByOwner("transfer_ownership")
    /\ own_ret.panic = None
    /\ own_ret.arg # Some(own_ret.by)
    /\ owner = own_ret.arg
    /\ owner # own_ret.was

\* the host holds exactly one promise result, and it is Successful
OneSuccessful ==
    Len(promise_results) = 1 /\ promise_results[1].tag = "Successful"

\* C16: promise_result_as_success aborts with "Contract expected a result on
\* the callback" unless the number of promise results is exactly 1; otherwise
\* it returns the payload when result 0 is Successful and nothing for any other
\* result; is_promise_success returns true exactly when
\* promise_result_as_success returns a payload.
C16_PromiseResult ==
    /\ promise_ret.op = "promise_result_as_success" =>
          /\ (promise_ret.panic # None) <=> (Len(promise_results) # 1)
          /\ promise_ret.panic # None =>
                promise_ret.panic = Some(ERR_EXPECTED_RESULT)
          /\ OneSuccessful => promise_ret.val = Some(promise_results[1].data)
          /\ ~OneSuccessful => promise_ret.val = None
    /\ promise_ret.op = "is_promise_success" =>
          /\ promise_ret.panic = promise_result_as_success.panic
          /\ promise_ret.flag <=> promise_result_as_success.val # None
          /\ promise_ret.flag <=> OneSuccessful

\* is_promise_success answered true for a single successful result whose
\* payload is empty
C16_Witness ==
    /\ promise_ret.op = "is_promise_success"
    /\ promise_ret.flag
    /\ promise_results = <<Successful(<<>>)>>

\* the slot the step's call returned, if it returned one
TakenNow == IF ret'.val = None THEN {} ELSE {yielded'[Len(yielded')].idx}

\* C17: nth(n) and nth_back(n) resolve through the vector only the single index
\* they return: the n skipped indices leave the range without any get/get_mut
\* on them, so their cache entries are as before the call; for IterMut no
\* skipped slot is loaded or marked Dirty by the skip.
C17_SkipResolvesNothing ==
    [][(Live /\ ret'.op \in {"nth", "nth_back"} /\ ret'.pre = remaining) =>
          /\ \A i \in Slots \ TakenNow : cache'[i] = cache[i]
          /\ ret'.val # None =>
                /\ Len(yielded') = Len(yielded) + 1
                /\ ret'.op = "nth" =>
                      /\ TakenNow = {start + ret'.arg}
                      /\ start' = start + ret'.arg + 1
                      /\ end' = end
                /\ ret'.op = "nth_back" =>
                      /\ TakenNow = {end - ret'.arg - 1}
                      /\ end' = end - ret'.arg - 1
                      /\ start' = start
          /\ ret'.val = None => yielded' = yielded]_vars

\* an IterMut answered nth(n) with n >= 1 and a slot it skipped is still not
\* cached, while the slot it returned is Dirty
C17_Witness ==
    /\ kind = "itermut"
    /\ ret.op = "nth"
    /\ ret.arg >= 1
    /\ ret.val # None
    /\ start >= 2
    /\ ~cache[start - 2].cached
    /\ cache[start - 1].cached
    /\ cache[start - 1].state = "Dirty"

\* the indices the iterator yielded from one side, in call order
SideIndices(side) ==
    LET ks == {k \in 1 .. Len(yielded) : yielded[k].side = side}
    IN  [k \in ks |-> yielded[k].idx]

\* C18: under any interleaving of front and back operations on one iterator,
\* 0 <= start <= end <= captured length always holds, start never decreases
\* and end never increases; indices yielded from the front are strictly
\* ascending, indices yielded from the back are strictly descending, and every
\* front-yielded index is smaller than every back-yielded index.
C18_CursorMonotonicity ==
    /\ [](Live =>
             /\ 0 <= start /\ start <= end /\ end <= len
             /\ \A j, k \in DOMAIN SideIndices("front") :
                   j < k => SideIndices("front")[j] < SideIndices("front")[k]
             /\ \A j, k \in DOMAIN SideIndices("back") :
                   j < k => SideIndices("back")[j] > SideIndices("back")[k]
             /\ \A j \in DOMAIN SideIndices("front"), k \in DOMAIN SideIndices("back") :
                   SideIndices("front")[j] < SideIndices("back")[k])
    /\ [][(Live /\ Live') => (start' >= start /\ end' <= end)]_vars

\* an iterator was driven from both ends, has yielded from each of them, and
\* its cursors have met
C18_Witness ==
    /\ Live
    /\ drive = "mixed"
    /\ DOMAIN SideIndices("front") # {}
    /\ DOMAIN SideIndices("back") # {}
    /\ start = end
    /\ start > 0
    /\ end < len

\* C19: once renounce_ownership has succeeded, the owner is None in every later
\* state: no account can pass only_owner, and every later transfer_ownership
\* or renounce_ownership call by any account aborts, so ownership is never
\* re-established.
C19_RenounceIsFinal ==
    /\ [](renounced => (owner = None /\ \A a \in Accounts : Some(a) # owner))
    /\ [][renounced =>
             /\ renounced'
             /\ owner' = None
             /\ own_ret'.op \in OwnerCalls \cup {"only_owner"}
             /\ own_ret'.panic = Some(ERR_NOT_OWNER)]_vars

\* after a renounce, an account tried to transfer the ownership and the call
\* aborted
C19_Witness ==
    /\ renounced
    /\ owner = None
    /\ own_ret.op = "transfer_ownership"
    /\ own_ret.was = None
    /\ own_ret.panic = Some(ERR_NOT_OWNER)

\* C20: transfer_ownership and renounce_ownership called by an account that is
\* not the current owner abort with "Ownable: caller is not the owner" and
\* leave the owner field unchanged; the owner changes only through a call made
\* by the current owner.
C20_NonOwnerCallsAbort ==
    /\ []((own_ret.op \in OwnerCalls /\ Some(own_ret.by) # own_ret.was) =>
             (own_ret.panic = Some(ERR_NOT_OWNER) /\ owner = own_ret.was))
    /\ [][owner' # owner =>
             /\ Some(predecessor') = owner
             /\ own_ret'.op \in OwnerCalls
             /\ own_ret'.by = predecessor'
             /\ own_ret'.panic = None]_vars

\* an account other than the owner tried to transfer the ownership to itself;
\* the call aborted and the owner is who it was
C20_Witness ==
    /\ own_ret.op = "transfer_ownership"
    /\ own_ret.was # None
    /\ Some(own_ret.by) # own_ret.was
    /\ own_ret.arg = Some(own_ret.by)
    /\ own_ret.panic = Some(ERR_NOT_OWNER)
    /\ owner = own_ret.was

=============================================================================
